---- MODULE Spec2Model ----
(***************************************************************************)
(* EnvironmentTeardown (teardown_script.py): the coordinator thread that   *)
(* runs execute(), and the ThreadPool tasks that each run                  *)
(* _power_off_or_delete_deployed_app for one deployed app, sharing one     *)
(* Lock and one message_status dictionary.                                 *)
(***************************************************************************)
EXTENDS Integers, Sequences, FiniteSets, TLC

\* ------------------------------------------------------------------ bounds
\* Largest number of resources get_resources_created_in_res may return.
MaxResources == 2
\* Largest number of connectors in the reservation description.
MaxConnectors == 1

\* -------------------------------------------------------- program constants
REMOVE_DEPLOYED_RESOURCE_ERROR == 153

ResourceIds == 1..MaxResources

\* ------------------------------------------------------------ value domains
\* Python's None for a custom parameter that is absent.
None == "<None>"
\* Values a custom parameter can carry (str), in differing letter case.
ParamValues == {"True", "false"}
\* str.lower() on the strings of the model.
Lower(s) ==
    CASE s \in {"true", "True", "TRUE"} -> "true"
      [] s \in {"false", "False", "FALSE"} -> "false"
      [] OTHER -> s

\* Exceptions.  kind "api" is CloudShellAPIError, whose code is a str or an
\* int; kind "exc" is any other Exception; kind "none" is no exception.
NoError == [kind |-> "none", ctype |-> "none", code |-> 0]
ApiError(t, c) == [kind |-> "api", ctype |-> t, code |-> c]
OtherError == [kind |-> "exc", ctype |-> "none", code |-> 0]
\* What the disconnect-phase calls may raise.
DisconnectErrors == {ApiError("str", 123), ApiError("int", 123), ApiError("str", 100),
                     OtherError}
\* What RemoveResourcesFromReservation may raise.
RemoveErrors == {ApiError("int", REMOVE_DEPLOYED_RESOURCE_ERROR),
                 ApiError("str", REMOVE_DEPLOYED_RESOURCE_ERROR),
                 ApiError("int", 100), OtherError}

\* Connectors of the reservation description.
ConnectorStates == {"Connected", "PartiallyConnected", "Disconnected"}
Connectors == [State : ConnectorStates, Target : BOOLEAN, Source : BOOLEAN]
ConnectorLists == UNION {[1..n -> Connectors] : n \in 0..MaxConnectors}

\* Messages written with WriteMessageToReservationOutput.
MsgBegin == "Beginning reservation teardown"
MsgDisconnecting == "Disconnecting all apps..."
MsgDisconnectError == "Error disconnecting apps. Error: ..."
MsgPoweredOffAndDeleted == "Apps are being powered off and deleted..."
MsgDeleted == "Apps are being deleted..."
MsgPoweringOff == "Apps are powering off..."
MsgRemoveError == "exc.message"
MsgCleanup == "Cleaning-up connectivity"
MsgFinished == "Reservation teardown finished successfully"
Messages == {MsgBegin, MsgDisconnecting, MsgDisconnectError,
             MsgPoweredOffAndDeleted, MsgDeleted, MsgPoweringOff,
             MsgRemoveError, MsgCleanup, MsgFinished}

VARIABLES
    pc,                 \* coordinator: position in execute()
    raised,             \* coordinator: call whose exception left execute(), or "none"
    connectors,         \* _disconnect_all_routes_in_reservation: local connectors
    endpoints,          \* _disconnect_all_routes_in_reservation: local endpoints
    disconnect_err,     \* exception caught by the disconnect handlers
    resources,          \* number of resources created in the reservation
    idx,                \* loop index of "for resource in resources"
    VmDetails,          \* resource -> "unknown" | "present" | "absent" (resource_details.VmDetails)
    resource_to_delete, \* the list built from the async results
    remove_err,         \* exception raised by RemoveResourcesFromReservation
    removed,            \* argument lists RemoveResourcesFromReservation was called with
    calls,              \* remote call name -> number of times issued
    msgs,               \* message -> number of WriteMessageToReservationOutput calls
    error_log,          \* origin -> number of logger.error entries
    faults,             \* coordinator calls that raised so far
    wpc,                \* worker: position in _power_off_or_delete_deployed_app
    auto_delete_param,  \* worker local: "unread" | None | value
    auto_power_off_param, \* worker local: "unread" | None | value
    result,             \* async result of the task: "pending" | None | "name" (resource_name)
    wfault,             \* worker: call that raised inside the task, or "none"
    power_off_calls,    \* resource -> number of PowerOff commands issued
    lock,               \* 0 when free, else the worker holding it
    message_status,     \* [power_off, delete]
    unlocked_reads,     \* a worker read message_status without holding the lock
    unlocked_writes,    \* a worker wrote message_status without holding the lock
    max_phase,          \* highest phase of execute() a remote call was issued in
    phase_regressed     \* a remote call was issued in a phase below max_phase

coord_vars == <<pc, raised, connectors, endpoints, disconnect_err, resources, idx, VmDetails,
                resource_to_delete, remove_err, removed, calls, faults>>
out_vars == <<msgs, error_log>>
worker_vars == <<wpc, auto_delete_param, auto_power_off_param, result, wfault,
                 power_off_calls, lock, message_status, unlocked_reads,
                 unlocked_writes>>
phase_vars == <<max_phase, phase_regressed>>
vars == <<coord_vars, out_vars, worker_vars, phase_vars>>

CallNames == {"GetReservationDetails", "DisconnectRoutesInReservation",
              "GetResourceDetails", "RemoveResourcesFromReservation",
              "CleanupSandboxConnectivity"}

Init ==
    /\ pc = "get_reservation_details"
    /\ raised = "none"
    /\ connectors = <<>>
    /\ endpoints = <<>>
    /\ disconnect_err = NoError
    /\ resources = 0
    /\ idx = 1
    /\ VmDetails = [r \in ResourceIds |-> "unknown"]
    /\ resource_to_delete = <<>>
    /\ remove_err = NoError
    /\ removed = <<>>
    /\ calls = [c \in CallNames |-> 0]
    /\ msgs = [m \in Messages |-> 0]
    /\ error_log = [o \in {"disconnect", "worker", "remove"} |-> 0]
    /\ faults = {}
    /\ wpc = [r \in ResourceIds |-> "idle"]
    /\ auto_delete_param = [r \in ResourceIds |-> "unread"]
    /\ auto_power_off_param = [r \in ResourceIds |-> "unread"]
    /\ result = [r \in ResourceIds |-> "pending"]
    /\ wfault = [r \in ResourceIds |-> "none"]
    /\ power_off_calls = [r \in ResourceIds |-> 0]
    /\ lock = 0
    /\ message_status = [power_off |-> FALSE, delete |-> FALSE]
    /\ unlocked_reads = FALSE
    /\ unlocked_writes = FALSE
    /\ max_phase = 0
    /\ phase_regressed = FALSE

\* The phase of execute() (lines 26-37) a message belongs to.
PhaseOfMessage(m) ==
    CASE m = MsgBegin -> 1
      [] m \in {MsgDisconnecting, MsgDisconnectError} -> 2
      [] m \in {MsgPoweredOffAndDeleted, MsgDeleted, MsgPoweringOff, MsgRemoveError} -> 3
      [] m = MsgCleanup -> 4
      [] m = MsgFinished -> 5

\* The phase of execute() (lines 24-37) a remote call belongs to.
PhaseOfCall(c) ==
    CASE c = "GetReservationDetails" -> 1
      [] c = "DisconnectRoutesInReservation" -> 2
      [] c \in {"GetResourceDetails", "RemoveResourcesFromReservation"} -> 3
      [] c = "CleanupSandboxConnectivity" -> 4

\* A remote call of phase p was issued.
Issue(p) ==
    /\ max_phase' = IF p > max_phase THEN p ELSE max_phase
    /\ phase_regressed' = (phase_regressed \/ p < max_phase)

\* WriteMessageToReservationOutput was issued with message m.
Write(m) ==
    /\ msgs' = [msgs EXCEPT ![m] = @ + 1]
    /\ Issue(PhaseOfMessage(m))
\* A remote call named c was issued.
Call(c) ==
    /\ calls' = [calls EXCEPT ![c] = @ + 1]
    /\ Issue(PhaseOfCall(c))
\* An exception leaves execute() from the call named site.
Abort(site) ==
    /\ pc' = "aborted"
    /\ raised' = site
    /\ faults' = faults \cup {site}

\* ------------------------------------------------------------- execute()
\* line 24: api.GetReservationDetails
GetReservationDetails ==
    /\ pc = "get_reservation_details"
    /\ Call("GetReservationDetails")
    /\ \/ /\ pc' = "write_begin"
          /\ UNCHANGED <<raised, faults>>
       \/ Abort("GetReservationDetails")
    /\ UNCHANGED <<connectors, endpoints, disconnect_err, resources, idx, VmDetails,
                   resource_to_delete, remove_err, removed, out_vars, worker_vars>>

\* lines 26-27: 'Beginning reservation teardown'
WriteBegin ==
    /\ pc = "write_begin"
    /\ Write(MsgBegin)
    /\ \/ /\ pc' = "scan_connectors"
          /\ UNCHANGED <<raised, faults>>
       \/ Abort("write_begin")
    /\ UNCHANGED <<connectors, endpoints, disconnect_err, resources, idx, VmDetails,
                   resource_to_delete, remove_err, removed, calls, error_log,
                   worker_vars>>

\* --------------------------------- _disconnect_all_routes_in_reservation
\* faulty variant: Target and Source are not looked at
IsActiveRoute_AnyEndpoints(endpoint) ==
    endpoint.State \in {"Connected", "PartiallyConnected"}

\* lines 43-44: the connector contributes its endpoints
IsActiveRoute(endpoint) ==
    /\ endpoint.State \in {"Connected", "PartiallyConnected"}
    /\ endpoint.Target
    /\ endpoint.Source

\* lines 41-46: Target then Source of every active connector, in order
RECURSIVE CollectEndpoints(_, _)
CollectEndpoints(cs, i) ==
    IF i > Len(cs) THEN <<>>
    ELSE (IF IsActiveRoute(cs[i]) THEN <<<<i, "Target">>, <<i, "Source">>>> ELSE <<>>)
         \o CollectEndpoints(cs, i + 1)

\* return from _disconnect_all_routes_in_reservation: execute() goes on with
\* line 31; endpoints stays as the record of the list that was built
ReturnFromDisconnect ==
    /\ pc' = "get_resources"
    /\ connectors' = <<>>
    /\ UNCHANGED endpoints

\* lines 40-48: build endpoints
ScanConnectors ==
    /\ UNCHANGED phase_vars
    /\ pc = "scan_connectors"
    /\ \E cs \in ConnectorLists :
         /\ connectors' = cs
         /\ endpoints' = CollectEndpoints(cs, 1)
         /\ pc' = IF CollectEndpoints(cs, 1) = <<>>
                  THEN "no_routes" ELSE "write_disconnecting"
    /\ UNCHANGED <<raised, disconnect_err, resources, idx, VmDetails,
                   resource_to_delete, remove_err, removed, calls, faults,
                   out_vars, worker_vars>>

\* lines 48-50: nothing to disconnect: logger.info and return
NoRoutes ==
    /\ pc = "no_routes"
    /\ ReturnFromDisconnect
    /\ UNCHANGED <<raised, disconnect_err, resources, idx, VmDetails,
                   resource_to_delete, remove_err, removed, calls, faults,
                   out_vars, worker_vars, phase_vars>>

\* faulty variant: code "123" is reported like any other
IsReportedApiError_Always(cerr) == TRUE

\* line 59: the CloudShellAPIError is reported unless its code is "123"
IsReportedApiError(cerr) == ~(cerr.ctype = "str" /\ cerr.code = 123)

\* lines 58-69: which except clause takes err, and whether it reports it
IsReportedDisconnectError(err) ==
    IF err.kind = "api" THEN IsReportedApiError(err) ELSE TRUE

\* faulty variant: the error is logged but not written to the output
HandleDisconnectError_NoReport(site, err) ==
    /\ disconnect_err' = err
    /\ faults' = faults \cup {site}
    /\ ReturnFromDisconnect
    /\ IF IsReportedDisconnectError(err)
       THEN error_log' = [error_log EXCEPT !["disconnect"] = @ + 1]
       ELSE UNCHANGED error_log

\* lines 58-61, 65-67: the handlers, up to their logger.error
HandleDisconnectError(site, err) ==
    /\ disconnect_err' = err
    /\ faults' = faults \cup {site}
    /\ IF IsReportedDisconnectError(err)
       THEN /\ error_log' = [error_log EXCEPT !["disconnect"] = @ + 1]
            /\ pc' = "write_disconnect_error"
            /\ UNCHANGED <<connectors, endpoints>>
       ELSE /\ ReturnFromDisconnect
            /\ UNCHANGED error_log

\* lines 54-55: "Disconnecting all apps...", inside the try
WriteDisconnecting ==
    /\ pc = "write_disconnecting"
    /\ Write(MsgDisconnecting)
    /\ \/ /\ pc' = "disconnect_routes"
          /\ UNCHANGED <<connectors, endpoints, disconnect_err, faults, error_log>>
       \/ \E err \in DisconnectErrors : HandleDisconnectError("write_disconnecting", err)
    /\ UNCHANGED <<raised, resources, idx, VmDetails, resource_to_delete, remove_err,
                   removed, calls, worker_vars>>

\* line 56: api.DisconnectRoutesInReservation, inside the try
DisconnectRoutes ==
    /\ pc = "disconnect_routes"
    /\ Call("DisconnectRoutesInReservation")
    /\ \/ /\ ReturnFromDisconnect
          /\ UNCHANGED <<disconnect_err, faults, error_log>>
       \/ \E err \in DisconnectErrors :
            HandleDisconnectError("DisconnectRoutesInReservation", err)
    /\ UNCHANGED <<raised, resources, idx, VmDetails, resource_to_delete, remove_err,
                   removed, msgs, worker_vars>>

\* lines 62-63, 68-69: "Error disconnecting apps", inside the handler
WriteDisconnectError ==
    /\ pc = "write_disconnect_error"
    /\ Write(MsgDisconnectError)
    /\ \/ /\ ReturnFromDisconnect
          /\ UNCHANGED <<raised, faults>>
       \/ /\ Abort("write_disconnect_error")
          /\ UNCHANGED <<connectors, endpoints>>
    /\ UNCHANGED <<disconnect_err, resources, idx, VmDetails,
                   resource_to_delete, remove_err, removed, calls, error_log,
                   worker_vars>>

\* ------------------------------- _power_off_and_delete_all_vm_resources
\* lines 79-88: the resources created in the reservation; pool, lock and
\* message_status are new
GetResources ==
    /\ UNCHANGED phase_vars
    /\ pc = "get_resources"
    /\ \E n \in 0..MaxResources : resources' = n
    /\ idx' = 1
    /\ pc' = "fetch"
    /\ UNCHANGED <<raised, connectors, endpoints, disconnect_err, VmDetails,
                   resource_to_delete, remove_err, removed, calls, faults,
                   out_vars, worker_vars>>

\* faulty variant: a task is submitted whether or not the resource has VmDetails
FetchResource_SubmitsAll ==
    /\ pc = "fetch"
    /\ idx <= resources
    /\ Call("GetResourceDetails")
    /\ \/ /\ \E vm \in {"present", "absent"} :
               VmDetails' = [VmDetails EXCEPT ![idx] = vm]
          /\ wpc' = [wpc EXCEPT ![idx] = "start"]
          /\ idx' = idx + 1
          /\ UNCHANGED <<pc, raised, faults>>
       \/ /\ Abort("GetResourceDetails")
          /\ UNCHANGED <<VmDetails, wpc, idx>>
    /\ UNCHANGED <<connectors, endpoints, disconnect_err, resources,
                   resource_to_delete, remove_err, removed, out_vars,
                   auto_delete_param, auto_power_off_param, result, wfault,
                   power_off_calls, lock, message_status, unlocked_reads,
                   unlocked_writes>>

\* lines 90-95: one pass of the loop: GetResourceDetails, then apply_async for a
\* resource that has VmDetails
FetchResource ==
    /\ pc = "fetch"
    /\ idx <= resources
    /\ Call("GetResourceDetails")
    /\ \/ /\ \E vm \in {"present", "absent"} :
               /\ VmDetails' = [VmDetails EXCEPT ![idx] = vm]
               /\ wpc' = [wpc EXCEPT ![idx] = IF vm = "present" THEN "start" ELSE @]
          /\ idx' = idx + 1
          /\ UNCHANGED <<pc, raised, faults>>
       \/ /\ Abort("GetResourceDetails")
          /\ UNCHANGED <<VmDetails, wpc, idx>>
    /\ UNCHANGED <<connectors, endpoints, disconnect_err, resources,
                   resource_to_delete, remove_err, removed, out_vars,
                   auto_delete_param, auto_power_off_param, result, wfault,
                   power_off_calls, lock, message_status, unlocked_reads,
                   unlocked_writes>>

\* faulty variant: the pool is not joined
AllTasksFinished_NoJoin == TRUE

\* lines 97-98: pool.join() returns once every submitted task has finished
AllTasksFinished == \A r \in ResourceIds : wpc[r] \in {"idle", "done"}

\* lines 97-98: pool.close(); pool.join()
PoolJoin ==
    /\ UNCHANGED phase_vars
    /\ pc = "fetch"
    /\ idx > resources
    /\ AllTasksFinished
    /\ pc' = "collect"
    /\ UNCHANGED <<raised, connectors, endpoints, disconnect_err, resources, idx,
                   VmDetails, resource_to_delete, remove_err, removed, calls, faults,
                   out_vars, worker_vars>>

\* faulty variant: the None results are not filtered out
RECURSIVE CollectResults_IncludesNone(_, _)
CollectResults_IncludesNone(res, i) ==
    IF i > resources THEN <<>>
    ELSE (IF VmDetails[i] = "present" THEN <<i>> ELSE <<>>)
         \o CollectResults_IncludesNone(res, i + 1)

\* lines 100-104: the results that are not None, in submission order
RECURSIVE CollectResults(_, _)
CollectResults(res, i) ==
    IF i > resources THEN <<>>
    ELSE (IF VmDetails[i] = "present" /\ res[i] # None THEN <<i>> ELSE <<>>)
         \o CollectResults(res, i + 1)

\* lines 100-107: build resource_to_delete; the bulk call is skipped when empty
Collect ==
    /\ UNCHANGED phase_vars
    /\ pc = "collect"
    /\ resource_to_delete' = CollectResults(result, 1)
    /\ pc' = IF CollectResults(result, 1) # <<>> THEN "remove" ELSE "write_cleanup"
    /\ UNCHANGED <<raised, connectors, endpoints, disconnect_err, resources, idx,
                   VmDetails, remove_err, removed, calls, faults,
                   out_vars, worker_vars>>

\* faulty variant: the code is compared with the str "153"
IsRemoveDeployedResourceError_StrCode(exc) ==
    exc.ctype = "str" /\ exc.code = REMOVE_DEPLOYED_RESOURCE_ERROR

\* line 111: exc.code == EnvironmentTeardown.REMOVE_DEPLOYED_RESOURCE_ERROR
IsRemoveDeployedResourceError(exc) ==
    exc.ctype = "int" /\ exc.code = REMOVE_DEPLOYED_RESOURCE_ERROR

\* faulty variant: every CloudShellAPIError is swallowed
IsCaughtRemoveError_AnyCode(exc) == exc.kind = "api"

\* lines 110-111: the except clause takes a CloudShellAPIError only, and swallows
\* it only with code 153
IsCaughtRemoveError(exc) ==
    exc.kind = "api" /\ IsRemoveDeployedResourceError(exc)

\* lines 108-113: api.RemoveResourcesFromReservation and its handler, up to the
\* logger.error
RemoveResources ==
    /\ pc = "remove"
    /\ Call("RemoveResourcesFromReservation")
    /\ removed' = Append(removed, resource_to_delete)
    /\ \/ /\ pc' = "write_cleanup"
          /\ UNCHANGED <<raised, faults, remove_err, error_log>>
       \/ \E exc \in RemoveErrors :
            /\ remove_err' = exc
            /\ IF IsCaughtRemoveError(exc)
               THEN /\ error_log' = [error_log EXCEPT !["remove"] = @ + 1]
                    /\ pc' = "write_remove_error"
                    /\ faults' = faults \cup {"RemoveResourcesFromReservation"}
                    /\ UNCHANGED raised
               ELSE /\ Abort("RemoveResourcesFromReservation")
                    /\ UNCHANGED error_log
    /\ UNCHANGED <<connectors, endpoints, disconnect_err, resources, idx, VmDetails,
                   resource_to_delete, msgs, worker_vars>>

\* lines 114-115: the message of the caught error, inside the handler
WriteRemoveError ==
    /\ pc = "write_remove_error"
    /\ Write(MsgRemoveError)
    /\ \/ /\ pc' = "write_cleanup"
          /\ UNCHANGED <<raised, faults>>
       \/ Abort("write_remove_error")
    /\ UNCHANGED <<connectors, endpoints, disconnect_err, resources, idx, VmDetails,
                   resource_to_delete, remove_err, removed, calls, error_log,
                   worker_vars>>

\* ------------------------------------------------- _cleanup_connectivity
\* lines 186-187: 'Cleaning-up connectivity'
WriteCleanup ==
    /\ pc = "write_cleanup"
    /\ Write(MsgCleanup)
    /\ \/ /\ pc' = "cleanup"
          /\ UNCHANGED <<raised, faults>>
       \/ Abort("write_cleanup")
    /\ UNCHANGED <<connectors, endpoints, disconnect_err, resources, idx, VmDetails,
                   resource_to_delete, remove_err, removed, calls, error_log,
                   worker_vars>>

\* line 188: api.CleanupSandboxConnectivity
CleanupConnectivity ==
    /\ pc = "cleanup"
    /\ Call("CleanupSandboxConnectivity")
    /\ \/ /\ pc' = "write_finished"
          /\ UNCHANGED <<raised, faults>>
       \/ Abort("CleanupSandboxConnectivity")
    /\ UNCHANGED <<connectors, endpoints, disconnect_err, resources, idx, VmDetails,
                   resource_to_delete, remove_err, removed, out_vars, worker_vars>>

\* lines 36-37: 'Reservation teardown finished successfully'
WriteFinished ==
    /\ pc = "write_finished"
    /\ Write(MsgFinished)
    /\ \/ /\ pc' = "done"
          /\ UNCHANGED <<raised, faults>>
       \/ Abort("write_finished")
    /\ UNCHANGED <<connectors, endpoints, disconnect_err, resources, idx, VmDetails,
                   resource_to_delete, remove_err, removed, calls, error_log,
                   worker_vars>>

\* ----------------------------------- _power_off_or_delete_deployed_app
\* the variables a task step leaves alone
coord_frame == <<pc, raised, connectors, endpoints, disconnect_err, resources, idx,
                 VmDetails, resource_to_delete, remove_err, removed, calls, faults>>

\* faulty variant: an absent parameter counts as "false"
ValueOrDefault_DefaultFalse(param) == IF param = None THEN "false" ELSE param

\* lines 127-130, 153-156: the parameter's Value, "true" when it is absent
ValueOrDefault(param) == IF param = None THEN "true" ELSE param

\* faulty variant: the comparison is case-sensitive
IsTrue_CaseSensitive(value) == value = "true"

\* lines 132, 158: value.lower() == "true"
IsTrue(value) == Lower(value) = "true"

\* line 136: the check of message_status['delete'] before taking the lock
DeleteNotSent(status) == ~status.delete

\* faulty variant: the check under the lock is left out
DeleteStillNotSent_NoRecheck(status) == TRUE

\* line 138: the check of message_status['delete'] with the lock held
DeleteStillNotSent(status) == ~status.delete

\* faulty variant: the delete branch does not look at the power_off flag
PowerOffNotSentOnDelete_Always(status) == TRUE

\* faulty variant: the delete branch never sets the power_off flag
PowerOffNotSentOnDelete_Never(status) == FALSE

\* line 140: the check of message_status['power_off'] on the delete path
PowerOffNotSentOnDelete(status) == ~status.power_off

\* line 162: the check of message_status['power_off'] before taking the lock
PowerOffNotSent(status) == ~status.power_off

\* line 164: the check of message_status['power_off'] with the lock held
PowerOffStillNotSent(status) == ~status.power_off

\* faulty variant: the lock excludes nobody
CanAcquire_NoExclusion(r) == TRUE

\* lines 137, 163: "with lock" blocks until the Lock is free
CanAcquire(r) == lock = 0

\* a read of message_status by task r
ReadStatus(r) == unlocked_reads' = (unlocked_reads \/ lock # r)
\* a read and a write of message_status by task r
ReadWriteStatus(r) ==
    /\ unlocked_reads' = (unlocked_reads \/ lock # r)
    /\ unlocked_writes' = (unlocked_writes \/ lock # r)

\* the task returns value
Return(r, value) ==
    /\ result' = [result EXCEPT ![r] = value]
    /\ wpc' = [wpc EXCEPT ![r] = "done"]

\* faulty variant: the handler returns the resource name
Except_ReturnsName(r, site) ==
    /\ wfault' = [wfault EXCEPT ![r] = site]
    /\ error_log' = [error_log EXCEPT !["worker"] = @ + 1]
    /\ Return(r, "name")

\* lines 174-177: an exception raised at site is logged and the task returns None
Except(r, site) ==
    /\ wfault' = [wfault EXCEPT ![r] = site]
    /\ error_log' = [error_log EXCEPT !["worker"] = @ + 1]
    /\ Return(r, None)

\* lines 125-132: read auto_delete and choose the branch
GetAutoDelete(r) ==
    /\ UNCHANGED phase_vars
    /\ wpc[r] = "start"
    /\ \/ /\ \E p \in {None} \cup ParamValues :
               /\ auto_delete_param' = [auto_delete_param EXCEPT ![r] = p]
               /\ wpc' = [wpc EXCEPT ![r] = IF IsTrue(ValueOrDefault(p))
                                            THEN "check_delete"
                                            ELSE "get_auto_power_off"]
          /\ UNCHANGED <<result, wfault, error_log>>
       \/ /\ Except(r, "get_vm_custom_param")
          /\ UNCHANGED auto_delete_param
    /\ UNCHANGED <<coord_frame, msgs, auto_power_off_param, power_off_calls, lock,
                   message_status, unlocked_reads, unlocked_writes>>

\* line 136 (and line 151 when the message was already sent)
CheckDelete(r) ==
    /\ UNCHANGED phase_vars
    /\ wpc[r] = "check_delete"
    /\ ReadStatus(r)
    /\ IF DeleteNotSent(message_status)
       THEN /\ wpc' = [wpc EXCEPT ![r] = "lock_delete"]
            /\ UNCHANGED result
       ELSE Return(r, "name")
    /\ UNCHANGED <<coord_frame, out_vars, auto_delete_param, auto_power_off_param,
                   wfault, power_off_calls, lock, message_status, unlocked_writes>>

\* line 137: with lock
LockDelete(r) ==
    /\ UNCHANGED phase_vars
    /\ wpc[r] = "lock_delete"
    /\ CanAcquire(r)
    /\ lock' = r
    /\ wpc' = [wpc EXCEPT ![r] = "recheck_delete"]
    /\ UNCHANGED <<coord_frame, out_vars, auto_delete_param, auto_power_off_param,
                   result, wfault, power_off_calls, message_status, unlocked_reads,
                   unlocked_writes>>

\* lines 138-139 (and the end of the with block, and line 151, when another
\* task was first)
RecheckDelete(r) ==
    /\ UNCHANGED phase_vars
    /\ wpc[r] = "recheck_delete"
    /\ IF DeleteStillNotSent(message_status)
       THEN /\ ReadWriteStatus(r)
            /\ message_status' = [message_status EXCEPT !.delete = TRUE]
            /\ wpc' = [wpc EXCEPT ![r] = "delete_check_power_off"]
            /\ UNCHANGED <<lock, result>>
       ELSE /\ ReadStatus(r)
            /\ lock' = 0
            /\ Return(r, "name")
            /\ UNCHANGED <<message_status, unlocked_writes>>
    /\ UNCHANGED <<coord_frame, out_vars, auto_delete_param, auto_power_off_param,
                   wfault, power_off_calls>>

\* lines 140-141, 144: which of the two delete messages is sent
DeleteCheckPowerOff(r) ==
    /\ UNCHANGED phase_vars
    /\ wpc[r] = "delete_check_power_off"
    /\ IF PowerOffNotSentOnDelete(message_status)
       THEN /\ ReadWriteStatus(r)
            /\ message_status' = [message_status EXCEPT !.power_off = TRUE]
            /\ wpc' = [wpc EXCEPT ![r] = "write_powered_off_and_deleted"]
       ELSE /\ ReadStatus(r)
            /\ wpc' = [wpc EXCEPT ![r] = "write_deleted"]
            /\ UNCHANGED <<message_status, unlocked_writes>>
    /\ UNCHANGED <<coord_frame, out_vars, auto_delete_param, auto_power_off_param,
                   result, wfault, power_off_calls, lock>>

\* faulty variant: the lock is not released when the write raises
WriteDeleteMessage_LeaksLockOnError(r) ==
    /\ wpc[r] \in {"write_powered_off_and_deleted", "write_deleted"}
    /\ Write(IF wpc[r] = "write_deleted" THEN MsgDeleted ELSE MsgPoweredOffAndDeleted)
    /\ \/ /\ Return(r, "name")
          /\ lock' = 0
          /\ UNCHANGED <<wfault, error_log>>
       \/ /\ Except(r, "WriteMessageToReservationOutput")
          /\ UNCHANGED lock
    /\ UNCHANGED <<coord_frame, auto_delete_param, auto_power_off_param,
                   power_off_calls, message_status, unlocked_reads, unlocked_writes>>

\* lines 142-146, the end of the with block, and line 151
WriteDeleteMessage(r) ==
    /\ wpc[r] \in {"write_powered_off_and_deleted", "write_deleted"}
    /\ Write(IF wpc[r] = "write_deleted" THEN MsgDeleted ELSE MsgPoweredOffAndDeleted)
    /\ lock' = 0
    /\ \/ /\ Return(r, "name")
          /\ UNCHANGED <<wfault, error_log>>
       \/ Except(r, "WriteMessageToReservationOutput")
    /\ UNCHANGED <<coord_frame, auto_delete_param, auto_power_off_param,
                   power_off_calls, message_status, unlocked_reads, unlocked_writes>>

\* faulty variant: the app is powered off whatever auto_power_off says
GetAutoPowerOff_IgnoresParam(r) ==
    /\ UNCHANGED phase_vars
    /\ wpc[r] = "get_auto_power_off"
    /\ \/ /\ \E p \in {None} \cup ParamValues :
               auto_power_off_param' = [auto_power_off_param EXCEPT ![r] = p]
          /\ wpc' = [wpc EXCEPT ![r] = "check_power_off"]
          /\ UNCHANGED <<result, wfault, error_log>>
       \/ /\ Except(r, "get_vm_custom_param")
          /\ UNCHANGED auto_power_off_param
    /\ UNCHANGED <<coord_frame, msgs, auto_delete_param, power_off_calls, lock,
                   message_status, unlocked_reads, unlocked_writes>>

\* lines 153-158, and lines 171-173 when auto power off is disabled
GetAutoPowerOff(r) ==
    /\ UNCHANGED phase_vars
    /\ wpc[r] = "get_auto_power_off"
    /\ \/ /\ \E p \in {None} \cup ParamValues :
               /\ auto_power_off_param' = [auto_power_off_param EXCEPT ![r] = p]
               /\ IF IsTrue(ValueOrDefault(p))
                  THEN /\ wpc' = [wpc EXCEPT ![r] = "check_power_off"]
                       /\ UNCHANGED result
                  ELSE Return(r, None)
          /\ UNCHANGED <<wfault, error_log>>
       \/ /\ Except(r, "get_vm_custom_param")
          /\ UNCHANGED auto_power_off_param
    /\ UNCHANGED <<coord_frame, msgs, auto_delete_param, power_off_calls, lock,
                   message_status, unlocked_reads, unlocked_writes>>

\* line 162
CheckPowerOff(r) ==
    /\ UNCHANGED phase_vars
    /\ wpc[r] = "check_power_off"
    /\ ReadStatus(r)
    /\ wpc' = [wpc EXCEPT ![r] = IF PowerOffNotSent(message_status)
                                 THEN "lock_power_off" ELSE "power_off"]
    /\ UNCHANGED <<coord_frame, out_vars, auto_delete_param, auto_power_off_param,
                   result, wfault, power_off_calls, lock, message_status,
                   unlocked_writes>>

\* line 163: with lock
LockPowerOff(r) ==
    /\ UNCHANGED phase_vars
    /\ wpc[r] = "lock_power_off"
    /\ CanAcquire(r)
    /\ lock' = r
    /\ wpc' = [wpc EXCEPT ![r] = "recheck_power_off"]
    /\ UNCHANGED <<coord_frame, out_vars, auto_delete_param, auto_power_off_param,
                   result, wfault, power_off_calls, message_status, unlocked_reads,
                   unlocked_writes>>

\* lines 164-165 (and the end of the with block when another task was first)
RecheckPowerOff(r) ==
    /\ UNCHANGED phase_vars
    /\ wpc[r] = "recheck_power_off"
    /\ IF PowerOffStillNotSent(message_status)
       THEN /\ ReadWriteStatus(r)
            /\ message_status' = [message_status EXCEPT !.power_off = TRUE]
            /\ wpc' = [wpc EXCEPT ![r] = "write_powering_off"]
            /\ UNCHANGED lock
       ELSE /\ ReadStatus(r)
            /\ lock' = 0
            /\ wpc' = [wpc EXCEPT ![r] = "power_off"]
            /\ UNCHANGED <<message_status, unlocked_writes>>
    /\ UNCHANGED <<coord_frame, out_vars, auto_delete_param, auto_power_off_param,
                   result, wfault, power_off_calls>>

\* faulty variant: the PowerOff command is inside the with block
WritePoweringOff_KeepsLock(r) ==
    /\ wpc[r] = "write_powering_off"
    /\ Write(MsgPoweringOff)
    /\ \/ /\ wpc' = [wpc EXCEPT ![r] = "power_off"]
          /\ UNCHANGED <<lock, result, wfault, error_log>>
       \/ /\ Except(r, "WriteMessageToReservationOutput")
          /\ lock' = 0
    /\ UNCHANGED <<coord_frame, auto_delete_param, auto_power_off_param,
                   power_off_calls, message_status, unlocked_reads, unlocked_writes>>

\* lines 166-167 and the end of the with block
WritePoweringOff(r) ==
    /\ wpc[r] = "write_powering_off"
    /\ Write(MsgPoweringOff)
    /\ lock' = 0
    /\ \/ /\ wpc' = [wpc EXCEPT ![r] = "power_off"]
          /\ UNCHANGED <<result, wfault, error_log>>
       \/ Except(r, "WriteMessageToReservationOutput")
    /\ UNCHANGED <<coord_frame, auto_delete_param, auto_power_off_param,
                   power_off_calls, message_status, unlocked_reads, unlocked_writes>>

\* lines 169 and 173: ExecuteResourceConnectedCommand(..., "PowerOff", "power")
PowerOff(r) ==
    /\ wpc[r] = "power_off"
    /\ power_off_calls' = [power_off_calls EXCEPT ![r] = @ + 1]
    /\ Issue(3)
    /\ \/ /\ Return(r, None)
          /\ UNCHANGED <<wfault, error_log>>
       \/ Except(r, "ExecuteResourceConnectedCommand")
    /\ UNCHANGED <<coord_frame, msgs, auto_delete_param, auto_power_off_param, lock,
                   message_status, unlocked_reads, unlocked_writes>>

\* ------------------------------------------------------------ the system
Next ==
    \/ GetReservationDetails
    \/ WriteBegin
    \/ ScanConnectors
    \/ NoRoutes
    \/ WriteDisconnecting
    \/ DisconnectRoutes
    \/ WriteDisconnectError
    \/ GetResources
    \/ FetchResource
    \/ PoolJoin
    \/ Collect
    \/ RemoveResources
    \/ WriteRemoveError
    \/ WriteCleanup
    \/ CleanupConnectivity
    \/ WriteFinished
    \/ \E r \in ResourceIds :
         \/ GetAutoDelete(r)
         \/ CheckDelete(r)
         \/ LockDelete(r)
         \/ RecheckDelete(r)
         \/ DeleteCheckPowerOff(r)
         \/ WriteDeleteMessage(r)
         \/ GetAutoPowerOff(r)
         \/ CheckPowerOff(r)
         \/ LockPowerOff(r)
         \/ RecheckPowerOff(r)
         \/ WritePoweringOff(r)
         \/ PowerOff(r)

Spec == Init /\ [][Next]_vars


\* the steps of the thread that runs execute()
Coordinator ==
    \/ GetReservationDetails
    \/ WriteBegin
    \/ ScanConnectors
    \/ NoRoutes
    \/ WriteDisconnecting
    \/ DisconnectRoutes
    \/ WriteDisconnectError
    \/ GetResources
    \/ FetchResource
    \/ PoolJoin
    \/ Collect
    \/ RemoveResources
    \/ WriteRemoveError
    \/ WriteCleanup
    \/ CleanupConnectivity
    \/ WriteFinished

\* the steps of the pool thread that runs the task of resource r
Task(r) ==
    \/ GetAutoDelete(r)
    \/ CheckDelete(r)
    \/ LockDelete(r)
    \/ RecheckDelete(r)
    \/ DeleteCheckPowerOff(r)
    \/ WriteDeleteMessage(r)
    \/ GetAutoPowerOff(r)
    \/ CheckPowerOff(r)
    \/ LockPowerOff(r)
    \/ RecheckPowerOff(r)
    \/ WritePoweringOff(r)
    \/ PowerOff(r)

\* Every thread that can take a step eventually takes one, and every remote
\* call returns or raises.
FairSpec ==
    /\ Spec
    /\ WF_vars(Coordinator)
    /\ \A r \in ResourceIds : WF_vars(Task(r))

\* ------------------------------------------------------------ properties
DeleteClassMessages == msgs[MsgPoweredOffAndDeleted] + msgs[MsgDeleted]
\* the spellings of "true" that compare equal to it case-insensitively
TrueSpellings == {"true", "True", "TRUE"}
\* task r is between taking the lock and releasing it
InWithLock(r) ==
    wpc[r] \in {"recheck_delete", "delete_check_power_off",
                "write_powered_off_and_deleted", "write_deleted",
                "recheck_power_off", "write_powering_off"}
\* no task is running
NoTaskRunning == \A r \in ResourceIds : wpc[r] \in {"idle", "done"}
\* the coordinator is past pool.join()
PastJoin ==
    pc \in {"collect", "remove", "write_remove_error", "write_cleanup", "cleanup",
            "write_finished", "done"}
    \/ (pc = "aborted" /\ raised \in {"RemoveResourcesFromReservation",
            "write_remove_error", "write_cleanup", "CleanupSandboxConnectivity",
            "write_finished"})
\* the coordinator is past the bulk-delete step (line 107-115)
PastRemove ==
    pc \in {"write_cleanup", "cleanup", "write_finished", "done"}
    \/ (pc = "aborted" /\ raised \in {"write_cleanup", "CleanupSandboxConnectivity",
                                      "write_finished"})
\* no call made on behalf of the resources raised
NoResourceFault ==
    /\ \A r \in ResourceIds : wfault[r] = "none"
    /\ faults \cap {"GetResourceDetails", "RemoveResourcesFromReservation",
                    "write_remove_error"} = {}

\* C1: however the tasks interleave, 'Apps are powering off...' is written at
\* most once, and the two delete messages are written at most once in total.
C1_MessagesAtMostOnce ==
    /\ msgs[MsgPoweringOff] <= 1
    /\ DeleteClassMessages <= 1

\* C1 witness: a task passed the check of line 136, took the lock, and finds
\* the delete message already sent by another task.
C1_Witness ==
    \E r \in ResourceIds :
        /\ wpc[r] = "recheck_delete"
        /\ message_status.delete
        /\ DeleteClassMessages = 1

\* C2 as stated: every read and every write of message_status by a task is
\* made while that task holds the lock.
C2_AllAccessUnderLock == ~unlocked_reads /\ ~unlocked_writes

\* C2 amended: every write of message_status, and every step from the re-check
\* inside "with lock" to the message, is made by the task that holds the lock
\* (the reads of lines 136 and 162 are made without it).
C2_WritesUnderLock ==
    /\ ~unlocked_writes
    /\ \A r \in ResourceIds : InWithLock(r) => lock = r

\* C2 witness: a flag was read without the lock and a flag was written under it.
C2_Witness ==
    /\ unlocked_reads
    /\ message_status.power_off
    /\ \E r \in ResourceIds : wpc[r] = "write_powering_off" /\ lock = r

\* C3: once RemoveResourcesFromReservation was called no task is running, so
\* no PowerOff command and no status message follows it.
C3_RemoveAfterAllTasks ==
    (pc = "remove" \/ calls["RemoveResourcesFromReservation"] > 0) => NoTaskRunning

\* C3 witness: the bulk call was made after two tasks ran, one that powered its
\* app off and one that returned its name.
C3_Witness ==
    /\ calls["RemoveResourcesFromReservation"] = 1
    /\ \E r1, r2 \in ResourceIds :
         /\ power_off_calls[r1] = 1
         /\ result[r2] = "name"

\* C4: remote calls are issued in phase order (begin, disconnect, power
\* off/delete with all tasks and the bulk call, cleanup, finished): none is
\* issued in a phase below one already entered, no task runs once the cleanup
\* phase was entered, and a run that ends normally made each phase's call.
C4_PhasesInOrder ==
    /\ ~phase_regressed
    /\ max_phase >= 4 => NoTaskRunning
    /\ max_phase >= 2 => msgs[MsgBegin] = 1
    /\ max_phase >= 5 => calls["CleanupSandboxConnectivity"] = 1
    /\ pc = "done" => /\ msgs[MsgBegin] = 1
                      /\ msgs[MsgCleanup] = 1
                      /\ calls["CleanupSandboxConnectivity"] = 1
                      /\ msgs[MsgFinished] = 1

\* C4 witness: a complete run that disconnected routes, powered an app off and
\* removed another.
C4_Witness ==
    /\ pc = "done"
    /\ calls["DisconnectRoutesInReservation"] = 1
    /\ calls["RemoveResourcesFromReservation"] = 1
    /\ \E r \in ResourceIds : power_off_calls[r] = 1

\* the calls of the disconnect phase and of the power-off/delete phase made by
\* the coordinator
Phase2And3Sites ==
    {"write_disconnecting", "DisconnectRoutesInReservation", "write_disconnect_error",
     "GetResourceDetails", "RemoveResourcesFromReservation", "write_remove_error"}

C7_DisconnectErrorByCode ==
    "DisconnectRoutesInReservation" \in faults =>
        /\ raised # "DisconnectRoutesInReservation"
        /\ IF disconnect_err = ApiError("str", 123)
           THEN /\ error_log["disconnect"] = 0
                /\ msgs[MsgDisconnectError] = 0
                /\ pc # "write_disconnect_error"
                /\ raised # "write_disconnect_error"
           ELSE /\ error_log["disconnect"] = 1
                /\ msgs[MsgDisconnectError] =
                       (IF pc = "write_disconnect_error" THEN 0 ELSE 1)
        /\ ("write_disconnect_error" \notin faults /\ pc # "write_disconnect_error") =>
               /\ connectors = <<>>
               /\ pc \notin {"get_reservation_details", "write_begin",
                             "scan_connectors", "write_disconnecting",
                             "disconnect_routes"}
               /\ pc = "aborted" => raised \notin {"GetReservationDetails", "write_begin"}

\* C7 witness: the call failed with an exception that is no CloudShellAPIError,
\* was logged and reported once, and a task of the next phase is running.
C7_Witness ==
    /\ "DisconnectRoutesInReservation" \in faults
    /\ disconnect_err = OtherError
    /\ error_log["disconnect"] = 1
    /\ msgs[MsgDisconnectError] = 1
    /\ \E r \in ResourceIds : wpc[r] \notin {"idle", "done"}

\* the names in the list l
Names(l) == {l[i] : i \in 1..Len(l)}

\* C8: a task in which a call raised has released the lock, is finished and
\* returned None; it is no deletion candidate, while every task that returned
\* its name is one, and the bulk call gets exactly those names.
C8_TaskFailureIsolated ==
    /\ \A r \in ResourceIds :
         wfault[r] # "none" => /\ wpc[r] = "done"
                               /\ result[r] = None
                               /\ lock # r
    /\ (pc = "remove" \/ PastRemove) =>
         Names(resource_to_delete) = {r \in ResourceIds : result[r] = "name"}
    /\ calls["RemoveResourcesFromReservation"] > 0 => removed = <<resource_to_delete>>

\* C8 witness: one task failed on its status message, with the lock held, and
\* the bulk call was made with the name another task returned.
C8_Witness ==
    \E r1, r2 \in ResourceIds :
        /\ wfault[r1] = "WriteMessageToReservationOutput"
        /\ result[r2] = "name"
        /\ removed = <<<<r2>>>>

\* every resource is VM-backed with auto_delete absent or "true" in any case
AllAutoDelete ==
    /\ resources >= 1
    /\ \A r \in 1..resources :
         /\ VmDetails[r] = "present"
         /\ auto_delete_param[r] \in {None} \cup TrueSpellings

\* C9: when every one of the N >= 1 resources is VM-backed with auto_delete
\* absent or "true" (in any case) and no call raised, then after the join
\* exactly one delete message was written, and the one bulk call gets all N names.
C9_AllDeleted ==
    (AllAutoDelete /\ NoResourceFault /\ PastJoin) =>
        /\ DeleteClassMessages = 1
        /\ msgs[MsgPoweringOff] = 0
        /\ pc # "collect" => resource_to_delete = [i \in 1..resources |-> i]
        /\ PastRemove => removed = <<[i \in 1..resources |-> i]>>
        /\ \A r \in ResourceIds : power_off_calls[r] = 0

\* C9 witness: two resources, one without auto_delete and one with "True", both
\* passed to the bulk call.
C9_Witness ==
    /\ resources = 2
    /\ auto_delete_param[1] = None
    /\ auto_delete_param[2] = "True"
    /\ NoResourceFault
    /\ removed = <<<<1, 2>>>>
    /\ DeleteClassMessages = 1

\* every resource is VM-backed with auto_delete "false" and auto_power_off
\* absent or "true" in any case
AllAutoPowerOff ==
    /\ resources >= 1
    /\ \A r \in 1..resources :
         /\ VmDetails[r] = "present"
         /\ auto_delete_param[r] = "false"
         /\ auto_power_off_param[r] \in {None} \cup TrueSpellings

\* C10: when every one of the N >= 1 resources is VM-backed with auto_delete
\* "false" and auto_power_off absent or "true", and no call raised, then after
\* the join 'Apps are powering off...' was written exactly once, each resource
\* got exactly one PowerOff command, and the bulk call is never made.
C10_AllPoweredOff ==
    (AllAutoPowerOff /\ NoResourceFault /\ PastJoin) =>
        /\ msgs[MsgPoweringOff] = 1
        /\ DeleteClassMessages = 0
        /\ \A r \in 1..resources : power_off_calls[r] = 1
        /\ resource_to_delete = <<>>
        /\ pc # "remove"
        /\ calls["RemoveResourcesFromReservation"] = 0

\* C10 witness: two resources, one without auto_power_off and one with "True",
\* both powered off, and the run ended without a bulk call.
C10_Witness ==
    /\ resources = 2
    /\ AllAutoPowerOff
    /\ auto_power_off_param[1] = None
    /\ auto_power_off_param[2] = "True"
    /\ NoResourceFault
    /\ power_off_calls[1] = 1 /\ power_off_calls[2] = 1
    /\ msgs[MsgPoweringOff] = 1
    /\ pc = "done"

\* task r read auto_delete "false" and auto_power_off "false"
IsNoOpTask(r) == auto_delete_param[r] = "false" /\ auto_power_off_param[r] = "false"

\* a task with auto_delete "false" and auto_power_off "false" is finished, returned
\* None without an exception, got no PowerOff command and does not hold the lock
NoOpTaskState ==
    \A r \in ResourceIds :
        IsNoOpTask(r) => /\ wpc[r] = "done"
                         /\ result[r] = None
                         /\ wfault[r] = "none"
                         /\ power_off_calls[r] = 0
                         /\ lock # r

\* the two steps of such a task (reading auto_delete, reading auto_power_off and
\* returning) issue no remote call and leave the lock and message_status alone
NoOpTaskStep ==
    \A r \in ResourceIds :
        (/\ wpc'[r] # wpc[r]
         /\ wfault'[r] = "none"
         /\ auto_delete_param'[r] = "false"
         /\ \/ wpc'[r] = "get_auto_power_off"
            \/ wpc'[r] = "done" /\ auto_power_off_param'[r] = "false")
        => UNCHANGED <<msgs, calls, power_off_calls, lock, message_status, error_log>>

\* C11: a task whose resource has auto_delete "false" and auto_power_off "false"
\* issues no remote call, never takes the lock, changes no flag of
\* message_status, and returns None.
C11_NoOpTaskChangesNothing == []NoOpTaskState /\ [][NoOpTaskStep]_vars

\* C11 witness: such a task has finished while another task holds the lock.
C11_Witness ==
    \E r1, r2 \in ResourceIds :
        /\ IsNoOpTask(r1)
        /\ wpc[r1] = "done"
        /\ lock = r2

\* the number of tasks in which a call raised
RECURSIVE FailedTasks(_)
FailedTasks(i) ==
    IF i > MaxResources THEN 0
    ELSE (IF wfault[i] # "none" THEN 1 ELSE 0) + FailedTasks(i + 1)

\* no handler is between its logger.error and its message write
NoReportPending == pc \notin {"write_disconnect_error", "write_remove_error"}

C13_LockOnlyAroundWrite ==
    \A r \in ResourceIds :
        /\ lock = r => InWithLock(r)
        /\ wpc[r] = "power_off" => lock # r
        /\ wpc[r] \in {"idle", "start", "get_auto_power_off", "check_delete",
                       "check_power_off", "lock_delete", "lock_power_off", "done"}
               => lock # r

\* C13 witness: a task wrote 'Apps are powering off...' under the lock, released
\* it, and then issued its PowerOff command.
C13_Witness ==
    \E r \in ResourceIds :
        /\ power_off_calls[r] = 1
        /\ msgs[MsgPoweringOff] = 1
        /\ auto_power_off_param[r] # "unread"
        /\ \A q \in ResourceIds : q # r => wpc[q] = "idle"
        /\ lock = 0

\* some connector is Connected or PartiallyConnected and has a target and a source
HasActiveRoute(cs) ==
    \E i \in 1..Len(cs) :
        /\ cs[i].State \in {"Connected", "PartiallyConnected"}
        /\ cs[i].Target = TRUE
        /\ cs[i].Source = TRUE

\* the coordinator is inside _disconnect_all_routes_in_reservation, past the scan
InDisconnect ==
    pc \in {"no_routes", "write_disconnecting", "disconnect_routes",
            "write_disconnect_error"}

\* C14: DisconnectRoutesInReservation is called at most once and only when the
\* scan found a connector that is Connected or PartiallyConnected with a target
\* and a source; when it found none there is no call, no 'Disconnecting all
\* apps...' message, no error, and the phase returns.
C14_DisconnectOnlyActiveRoutes ==
    /\ calls["DisconnectRoutesInReservation"] <= 1
    /\ msgs[MsgDisconnecting] <= 1
    /\ InDisconnect => (endpoints # <<>> <=> HasActiveRoute(connectors))
    /\ pc = "no_routes" <=> (InDisconnect /\ ~HasActiveRoute(connectors))
    /\ (calls["DisconnectRoutesInReservation"] > 0 \/ msgs[MsgDisconnecting] > 0)
           => endpoints # <<>>
    /\ endpoints = <<>> =>
           /\ calls["DisconnectRoutesInReservation"] = 0
           /\ msgs[MsgDisconnecting] = 0
           /\ msgs[MsgDisconnectError] = 0
           /\ error_log["disconnect"] = 0
           /\ raised \notin {"write_disconnecting", "DisconnectRoutesInReservation",
                             "write_disconnect_error"}

\* C14 witness: the only connector is Connected but has no target; the scan found
\* nothing to disconnect and no call and no message was issued.
C14_Witness ==
    /\ pc = "no_routes"
    /\ Len(connectors) = 1
    /\ connectors[1].State = "Connected"
    /\ ~connectors[1].Target
    /\ calls["DisconnectRoutesInReservation"] = 0
    /\ msgs[MsgDisconnecting] = 0

\* the tasks that returned their resource name
ReturnedNames == {r \in ResourceIds : result[r] = "name"}

\* C15: RemoveResourcesFromReservation is called at most once, only with a
\* non-empty list, which holds exactly the names the tasks returned, each once;
\* it is skipped only when no task returned a name; and no resource in the list
\* got a PowerOff command.
C15_BulkDeleteOnly ==
    /\ calls["RemoveResourcesFromReservation"] <= 1
    /\ Len(removed) = calls["RemoveResourcesFromReservation"]
    /\ (pc = "remove" \/ calls["RemoveResourcesFromReservation"] > 0) =>
           /\ resource_to_delete # <<>>
           /\ Names(resource_to_delete) = ReturnedNames
           /\ Cardinality(Names(resource_to_delete)) = Len(resource_to_delete)
           /\ \A r \in Names(resource_to_delete) : power_off_calls[r] = 0
    /\ calls["RemoveResourcesFromReservation"] > 0 => removed = <<resource_to_delete>>
    /\ (PastRemove /\ calls["RemoveResourcesFromReservation"] = 0) => ReturnedNames = {}

\* C15 witness: one app was powered off and the other one alone was passed to
\* the bulk call.
C15_Witness ==
    /\ power_off_calls[1] = 1
    /\ removed = <<<<2>>>>
    /\ PastRemove

\* C16: for a resource without VmDetails no task exists: its parameters are never
\* read, it gets no PowerOff command and is in no bulk-delete list; a run with
\* no VM-backed resource leaves message_status and the lock untouched and
\* writes no status message.
C16_NoVmDetailsSkipped ==
    /\ \A r \in ResourceIds :
         VmDetails[r] = "absent" =>
             /\ wpc[r] = "idle"
             /\ result[r] = "pending"
             /\ wfault[r] = "none"
             /\ auto_delete_param[r] = "unread"
             /\ auto_power_off_param[r] = "unread"
             /\ power_off_calls[r] = 0
             /\ lock # r
             /\ r \notin Names(resource_to_delete)
             /\ \A i \in 1..Len(removed) : r \notin Names(removed[i])
    /\ (\A r \in ResourceIds : VmDetails[r] # "present") =>
         /\ message_status = [power_off |-> FALSE, delete |-> FALSE]
         /\ lock = 0
         /\ DeleteClassMessages + msgs[MsgPoweringOff] = 0
         /\ calls["RemoveResourcesFromReservation"] = 0

\* C16 witness: the first resource has no VmDetails, the second was deleted, and
\* the run ended.
C16_Witness ==
    /\ VmDetails[1] = "absent"
    /\ VmDetails[2] = "present"
    /\ removed = <<<<2>>>>
    /\ pc = "done"

\* what the tasks have written in all
StatusMessages == DeleteClassMessages + msgs[MsgPoweringOff]

\* the task that set the delete flag picks its message by the power_off flag as
\* it is under the lock
DeleteMessageChoice ==
    \A r \in ResourceIds :
        (wpc[r] = "delete_check_power_off" /\ wpc'[r] # wpc[r]) =>
            wpc'[r] = IF message_status.power_off
                      THEN "write_deleted" ELSE "write_powered_off_and_deleted"

\* which messages go together
DeleteMessageMatchesPowerOff ==
    /\ \A r \in ResourceIds :
         /\ wpc[r] = "delete_check_power_off" =>
                /\ DeleteClassMessages = 0
                /\ message_status.power_off <=> msgs[MsgPoweringOff] = 1
         /\ wpc[r] = "write_powered_off_and_deleted" => msgs[MsgPoweringOff] = 0
         /\ wpc[r] = "write_deleted" => msgs[MsgPoweringOff] = 1
    /\ msgs[MsgPoweredOffAndDeleted] > 0 => msgs[MsgPoweringOff] = 0
    /\ msgs[MsgDeleted] > 0 => msgs[MsgPoweringOff] = 1
    /\ StatusMessages <= 2

\* C17: the delete announcement is 'Apps are being powered off and deleted...'
\* exactly when the power_off flag is still false when the task that announces
\* the delete looks at it under the lock, else 'Apps are being deleted...', which
\* then follows 'Apps are powering off...'; 'Apps are being powered off and
\* deleted...' and 'Apps are powering off...' are never both written, and the
\* tasks write at most two status messages.
C17_DeleteMessageByPowerOffFlag ==
    []DeleteMessageMatchesPowerOff /\ [][DeleteMessageChoice]_vars

\* C17 witness: 'Apps are powering off...' came first and the delete
\* announcement was 'Apps are being deleted...'.
C17_Witness ==
    /\ msgs[MsgPoweringOff] = 1
    /\ msgs[MsgDeleted] = 1
    /\ msgs[MsgPoweredOffAndDeleted] = 0

\* a flag that is set stays set
FlagsNeverReset ==
    /\ message_status.power_off => message_status'.power_off
    /\ message_status.delete => message_status'.delete

\* C18: both flags start false and, once true, stay true; whenever the lock is
\* free, delete = true implies power_off = true.
C18_FlagsMonotoneAndOrdered ==
    /\ message_status = [power_off |-> FALSE, delete |-> FALSE]
    /\ [][FlagsNeverReset]_vars
    /\ [](lock = 0 => (message_status.delete => message_status.power_off))

\* C18 witness: a delete task set delete, then power_off, and released the lock.
C18_Witness ==
    /\ lock = 0
    /\ message_status.delete
    /\ message_status.power_off
    /\ msgs[MsgPoweredOffAndDeleted] = 1

\* C19: once a PowerOff command was issued, 'Apps are powering off...' or 'Apps
\* are being powered off and deleted...' has been written.
C19_AnnouncedBeforePowerOff ==
    (\E r \in ResourceIds : power_off_calls[r] > 0) =>
        msgs[MsgPoweringOff] + msgs[MsgPoweredOffAndDeleted] >= 1

\* every task that holds the lock releases it
LockReleased == \A r \in ResourceIds : (lock = r) ~> (lock # r)
\* every submitted task finishes
TasksFinish == \A r \in ResourceIds : (wpc[r] # "idle") ~> (wpc[r] = "done")

\* C20 as stated: every task releases the lock and finishes, and the coordinator
\* in the submission loop always gets past the join to the bulk-delete step.
C20_AlwaysReachesBulkDelete ==
    /\ LockReleased
    /\ TasksFinish
    /\ (pc = "fetch") ~> (pc = "collect")

\* C20 amended: every task releases the lock and finishes, and the coordinator in
\* the submission loop gets past the join to the bulk-delete step unless
\* GetResourceDetails raises in the loop, which leaves execute.
C20_NoDeadlock ==
    /\ LockReleased
    /\ TasksFinish
    /\ (pc = "fetch") ~> (pc = "collect" \/ raised = "GetResourceDetails")

\* C20 witness: the 'Apps are powering off...' write raised with the lock held,
\* another task then took the lock and wrote 'Apps are being deleted...', and
\* the coordinator is past the join.
C20_Witness ==
    /\ pc = "collect"
    /\ \E r \in ResourceIds :
         /\ auto_delete_param[r] = "false"
         /\ wfault[r] = "WriteMessageToReservationOutput"
    /\ msgs[MsgDeleted] = 1
    /\ lock = 0

====
